---- MODULE Spec2Model ----
(***************************************************************************)
(* Model of the chat backend: the Conversation / Version / Message tables  *)
(* (chat/models.py), the serializers that write them (chat/serializers.py),*)
(* the post_save receivers (chat/signals.py), the summary service          *)
(* (chat/summary_service.py), the periodic tasks (chat/tasks.py) and the   *)
(* upload de-duplication (UploadedFileSerializer, UploadedFile.save).      *)
(*                                                                         *)
(* The database runs in Django's default autocommit mode: every save() or  *)
(* delete() is committed when it returns, so whatever a handler wrote      *)
(* before it raised stays written.  Time is counted in days.               *)
(***************************************************************************)
EXTENDS Integers, Sequences, FiniteSets, TLC

\* Python None / SQL NULL: None where a key or a time is expected, NoText
\* where a text is expected.  NoError: no exception is propagating.
None == 0 - 1
NoText == "None"
NoError == "NoError"

\* validated_data holds each key as the set of its values: Absent when the
\* key is missing, Some(x) when it is there with value x (x may be None).
Absent == {}
Some(x) == {x}

\* ------------------------------------------------------------------ bounds
MaxConversations == 2
MaxVersions == 2
MaxMessages == 3
MaxTime == 1
MaxFiles == 2
MaxPayload == 2
MaxClients == 2

\* ------------------------------------------------------- program constants
MIN_MESSAGES_FOR_SUMMARY == 3
\* The slice [:50] of generate_missing_summaries.
MissingSummariesLimit == 50

ConversationIds == 1..MaxConversations
Clients == 1..MaxClients

\* Uploaded files: a name and the bytes.
FileNames == {"a.pdf", "notes", "c.tar.gz"}
FileContents == {<<1>>, <<2>>, <<1, 1>>}
NoFile == [name |-> "", content |-> <<>>]

\* What the summarizer call produces: an error, or the text of the first
\* choice (possibly blank, possibly padded with white space).
OpenAIError == "OpenAIError"
SummarizerReplies == {OpenAIError, " ", "sum", " sum "}

\* str.strip() on the reply texts.
Strip(text) ==
    CASE text = " " -> ""
      [] text = " sum " -> "sum"
      [] OTHER -> text

\* Python truthiness of an Optional[str]: None and "" are falsy.
Truthy(x) == x /= NoText /\ x /= ""

\* ---------------------------------------------------------------- attributes
\* The attributes a model instance answers to: its fields and the reverse
\* accessors that foreign keys of other models declare with related_name.
\* Any other name raises AttributeError.
ConversationAttrs ==
    {"id", "title", "created_at", "modified_at", "active_version", "deleted_at",
     "user", "summary", "summary_generated_at", "is_summary_stale",
     "versions", "files"}

MessageAttrs == {"id", "content", "role", "created_at", "version"}

VARIABLES
    Conversation,   \* id -> row of chat_conversation
    Version,        \* id -> row of chat_version
    Message,        \* id -> row of chat_message
    UploadedFile,   \* id -> row of chat_uploadedfile
    cache,          \* conversation id -> cached summary (django cache)
    next_id,        \* the next primary key of each table (uuid4: never reused)
    clock,          \* now(), in days
    summarizer,     \* what the summarizer service answers to a call made now
    upload,         \* the upload requests in flight, per client
    appending,      \* the message appends in flight, per client: the version
                    \* and the conversation instance the request has loaded
    last            \* the last handler that ran, what the summarizer answered
                    \* then, the exception it raised and the value it returned

vars == <<Conversation, Version, Message, UploadedFile, cache, next_id, clock, summarizer, upload, appending, last>>

\* ------------------------------------------------------------------ store
\* The handlers below are written as functions of a store: the tables, the
\* cache and the key counters as one record, with err the exception that is
\* propagating (NoError when there is none), ret the value returned and calls
\* the number of times update_conversation_summary was entered.
Store ==
    [C |-> Conversation, V |-> Version, M |-> Message, F |-> UploadedFile,
     K |-> cache, ids |-> next_id, err |-> NoError, ret |-> None, calls |-> 0]

Raise(s, e) == [s EXCEPT !.err = e]

\* dict.get(key, default) on validated_data.
Get(validated_data, key, default) ==
    IF validated_data[key] = Absent
    THEN default
    ELSE CHOOSE x \in validated_data[key] : TRUE

should_serialize(validated_data, field_name) ==
    validated_data[field_name] /= Absent /\ validated_data[field_name] /= Some(None)

\* DateTimeField(auto_now_add=True): set when the row is inserted, kept after.
AutoNowAddStamp(old, created, now) == now
AutoNowAdd(old, created, now) == IF created THEN now ELSE old

\* The messages of all versions of a conversation.
ConversationMessages(s, c) ==
    {m \in DOMAIN s.M : s.V[s.M[m].version].conversation = c}

\* ---------------------------------------------------------- summary service
generate_summary(s, c, reply) ==
    IF "messages" \notin ConversationAttrs
    THEN NoText   \* conversation.messages: AttributeError, caught by except Exception
    ELSE IF Cardinality(ConversationMessages(s, c)) < MIN_MESSAGES_FOR_SUMMARY
    THEN NoText
    ELSE IF reply = OpenAIError
    THEN NoText
    ELSE Strip(reply)

update_conversation_summary_clears_flag(s, c, now, reply) ==
    LET summary == generate_summary(s, c, reply) IN
    IF Truthy(summary)
    THEN [s EXCEPT !.C[c].summary = summary,
                   !.C[c].summary_generated_at = now,
                   !.C[c].is_summary_stale = FALSE,
                   !.K[c] = summary,
                   !.ret = TRUE,
                   !.calls = @ + 1]
    ELSE [s EXCEPT !.C[c].is_summary_stale = FALSE, !.ret = FALSE, !.calls = @ + 1]

update_conversation_summary(s, c, now, reply) ==
    LET summary == generate_summary(s, c, reply) IN
    IF Truthy(summary)
    THEN [s EXCEPT !.C[c].summary = summary,
                   !.C[c].summary_generated_at = now,
                   !.C[c].is_summary_stale = FALSE,
                   !.K[c] = summary,
                   !.ret = TRUE,
                   !.calls = @ + 1]
    ELSE [s EXCEPT !.ret = FALSE, !.calls = @ + 1]

get_cached_summary_without_backfill(s, c) ==
    LET cached == s.K[c] IN
    IF Truthy(cached)
    THEN [s EXCEPT !.ret = cached]
    ELSE IF Truthy(s.C[c].summary)
    THEN [s EXCEPT !.ret = s.C[c].summary]
    ELSE [s EXCEPT !.ret = NoText]

\* ConversationSummaryService.get_cached_summary(conversation); ret is the
\* text returned, NoText for None.
get_cached_summary(s, c) ==
    LET cached == s.K[c] IN
    IF Truthy(cached)
    THEN [s EXCEPT !.ret = cached]
    ELSE IF Truthy(s.C[c].summary)
    THEN [s EXCEPT !.K[c] = s.C[c].summary, !.ret = s.C[c].summary]
    ELSE [s EXCEPT !.ret = NoText]

\* ConversationSummaryService.mark_summary_stale(conversation):
\* save(update_fields=['is_summary_stale']) writes that column only, then
\* the cache entry is deleted.
mark_summary_stale_keeps_cache(s, c) ==
    [s EXCEPT !.C[c].is_summary_stale = TRUE]
mark_summary_stale(s, c) ==
    [s EXCEPT !.C[c].is_summary_stale = TRUE, !.K[c] = NoText]

\* ------------------------------------------------------------------ signals
\* post_save receiver of Message.  `instance.conversation` is read first.
regenerate_summary_on_message_save(s, m, created, now, reply) ==
    IF ~created
    THEN s
    ELSE IF "conversation" \notin MessageAttrs
    THEN Raise(s, "AttributeError")
    ELSE LET c == s.V[s.M[m].version].conversation IN
         IF "messages" \notin ConversationAttrs
         THEN Raise(s, "AttributeError")
         ELSE IF Cardinality(ConversationMessages(s, c)) >= MIN_MESSAGES_FOR_SUMMARY
         THEN [update_conversation_summary(s, c, now, reply) EXCEPT !.ret = None]
         ELSE s

\* post_save receiver of Conversation.
handle_conversation_save(s, c, created) ==
    IF created THEN [s EXCEPT !.C[c].is_summary_stale = TRUE] ELSE s

\* ------------------------------------------------------------------- models
\* Conversation.save() of an existing row: every column is written from the
\* instance, modified_at (auto_now) becomes now.
ConversationSave(s, c, row, now) ==
    handle_conversation_save(
        [s EXCEPT !.C = (c :> [row EXCEPT !.modified_at = now]) @@ s.C], c, FALSE)

\* Conversation.objects.create(**validated_data).
ConversationObjectsCreate(s, title, active_version, now) ==
    LET c == s.ids.conversation
        row == [title |-> title, created_at |-> now, modified_at |-> now,
                active_version |-> active_version, summary |-> NoText,
                summary_generated_at |-> None, is_summary_stale |-> FALSE]
    IN handle_conversation_save(
           [s EXCEPT !.C = (c :> row) @@ s.C, !.ids.conversation = c + 1], c, TRUE)

\* Message.save() with self.version.conversation already loaded as
\* `conversation`: saves that instance, then the message row, then post_save
\* is sent.
MessageSaveFrom(s, m, row, created, now, reply, conversation) ==
    LET c == s.V[row.version].conversation
        s1 == ConversationSave(s, c, conversation, now)
        old == IF created THEN None ELSE s.M[m].created_at
        s2 == [s1 EXCEPT !.M = (m :> [row EXCEPT !.created_at = AutoNowAdd(old, created, now)]) @@ s1.M]
    IN regenerate_summary_on_message_save(s2, m, created, now, reply)

\* Message.save() that loads self.version.conversation and saves it at once.
MessageSave(s, m, row, created, now, reply) ==
    MessageSaveFrom(s, m, row, created, now, reply, s.C[s.V[row.version].conversation])

\* Message.objects.create(version=..., content=..., role=...) with the
\* version's conversation already loaded.
MessageObjectsCreateFrom(s, v, content, role, now, reply, conversation) ==
    LET m == s.ids.message
        row == [content |-> content, role |-> role, created_at |-> None, version |-> v]
    IN MessageSaveFrom([s EXCEPT !.ids.message = m + 1], m, row, TRUE, now, reply,
                       conversation)

\* Message.objects.create(version=..., content=..., role=...).
MessageObjectsCreate(s, v, content, role, now, reply) ==
    MessageObjectsCreateFrom(s, v, content, role, now, reply, s.C[s.V[v].conversation])


\* -------------------------------------------------------------- serializers
\* MessageSerializer.create(validated_data), version passed by save(version=).
MessageSerializer_create(s, v, content, role, now, reply) ==
    MessageObjectsCreate(s, v, content, role, now, reply)

\* The loop over messages_data of VersionSerializer.update (lines 101-109);
\* an exception ends it.
RECURSIVE ReconcileMessages(_, _, _, _, _)
ReconcileMessages(s, v, messages_data, now, reply) ==
    IF messages_data = <<>> \/ s.err /= NoError
    THEN s
    ELSE LET message_data == Head(messages_data)
             m == Get(message_data, "id", None)
             s1 == IF message_data.id /= Absent
                   THEN IF m \in DOMAIN s.M /\ s.M[m].version = v
                        THEN MessageSave(s, m,
                                 [s.M[m] EXCEPT
                                     !.content = Get(message_data, "content", @),
                                     !.role = Get(message_data, "role", @)],
                                 FALSE, now, reply)
                        ELSE Raise(s, "DoesNotExist")
                   ELSE MessageObjectsCreate(s, v, Get(message_data, "content", ""),
                                             Get(message_data, "role", None), now, reply)
         IN ReconcileMessages(s1, v, Tail(messages_data), now, reply)

\* The fields of which VersionSerializer.update wants at least one.
VersionUpdateFieldsWithoutConversation == {"parent_version", "root_message"}
VersionUpdateFields == {"conversation", "parent_version", "root_message"}

\* VersionSerializer.update(instance, validated_data).
VersionSerializer_update(s, v, validated_data, now, reply) ==
    LET instance ==
            [conversation |-> Get(validated_data, "conversation", s.V[v].conversation),
             parent_version |-> Get(validated_data, "parent_version", s.V[v].parent_version),
             root_message |-> Get(validated_data, "root_message", s.V[v].root_message)]
    IN IF ~(\E f \in VersionUpdateFields : should_serialize(validated_data, f))
       THEN Raise(s, "ValidationError")
       ELSE ReconcileMessages([s EXCEPT !.V[v] = instance], v,
                              Get(validated_data, "messages", <<>>), now, reply)

\* The loop over messages_data of VersionSerializer.create (lines 80-81).
RECURSIVE CreateMessages(_, _, _, _, _)
CreateMessages(s, v, messages_data, now, reply) ==
    IF messages_data = <<>> \/ s.err /= NoError
    THEN s
    ELSE CreateMessages(
             MessageObjectsCreate(s, v, Get(Head(messages_data), "content", ""),
                                  Get(Head(messages_data), "role", None), now, reply),
             v, Tail(messages_data), now, reply)

\* VersionSerializer.create(validated_data).
VersionSerializer_create(s, validated_data, now, reply) ==
    LET v == s.ids.version
        row == [conversation |-> Get(validated_data, "conversation", None),
                parent_version |-> Get(validated_data, "parent_version", None),
                root_message |-> Get(validated_data, "root_message", None)]
    IN CreateMessages([s EXCEPT !.V = (v :> row) @@ s.V, !.ids.version = v + 1],
                      v, Get(validated_data, "messages", <<>>), now, reply)

\* VersionSerializer(...).is_valid(): `messages` is a required field.
is_valid(version_data) == version_data.messages /= Absent

\* version_serializer.save(conversation=c): validated_data plus the keyword.
WithConversation(version_data, c) ==
    [conversation |-> Some(c),
     parent_version |-> version_data.parent_version,
     root_message |-> version_data.root_message,
     messages |-> version_data.messages]

\* The loop over versions_data of ConversationSerializer.update (146-153).
RECURSIVE UpsertVersions(_, _, _, _, _)
UpsertVersions(s, c, versions_data, now, reply) ==
    IF versions_data = <<>> \/ s.err /= NoError
    THEN s
    ELSE LET version_data == Head(versions_data)
             v == Get(version_data, "id", None)
             s1 == IF version_data.id /= Absent
                   THEN IF v \in DOMAIN s.V /\ s.V[v].conversation = c
                        THEN IF is_valid(version_data)
                             THEN VersionSerializer_update(
                                      s, v, WithConversation(version_data, c), now, reply)
                             ELSE s
                        ELSE Raise(s, "DoesNotExist")
                   ELSE IF is_valid(version_data)
                        THEN VersionSerializer_create(
                                 s, WithConversation(version_data, c), now, reply)
                        ELSE s
         IN UpsertVersions(s1, c, Tail(versions_data), now, reply)

\* The loop over versions_data of ConversationSerializer.create (130-133).
RECURSIVE CreateVersions(_, _, _, _, _)
CreateVersions(s, c, versions_data, now, reply) ==
    IF versions_data = <<>> \/ s.err /= NoError
    THEN s
    ELSE LET version_data == Head(versions_data)
             s1 == IF is_valid(version_data)
                   THEN VersionSerializer_create(
                            s, WithConversation(version_data, c), now, reply)
                   ELSE s
         IN CreateVersions(s1, c, Tail(versions_data), now, reply)

\* ConversationSerializer.create(validated_data).
ConversationSerializer_create(s, validated_data, now, reply) ==
    LET c == s.ids.conversation
        s1 == ConversationObjectsCreate(s, Get(validated_data, "title", "Mock title"),
                  Get(validated_data, "active_version", None), now)
    IN CreateVersions(s1, c, Get(validated_data, "versions", <<>>), now, reply)

\* ConversationSerializer.update(instance, validated_data).
ConversationSerializer_update(s, c, validated_data, now, reply) ==
    LET active_version_id == Get(validated_data, "active_version", s.C[c].active_version)
        instance == [s.C[c] EXCEPT
                        !.title = Get(validated_data, "title", @),
                        !.active_version =
                            IF active_version_id /= None THEN active_version_id ELSE @]
    IN IF active_version_id /= None /\ active_version_id \notin DOMAIN s.V
       THEN Raise(s, "DoesNotExist")
       ELSE UpsertVersions(ConversationSave(s, c, instance, now), c,
                           Get(validated_data, "versions", <<>>), now, reply)

\* -------------------------------------------------------------------- tasks
\* What QuerySet.delete() collects from a set of conversations: versions and
\* messages by CASCADE, and, by the CASCADE of Conversation.active_version,
\* the conversations whose active version is collected.
RECURSIVE CollectConversations(_, _)
CollectConversations(s, cs) ==
    LET vs == {v \in DOMAIN s.V : s.V[v].conversation \in cs}
        more == cs \cup {c \in DOMAIN s.C : s.C[c].active_version \in vs}
    IN IF more = cs THEN cs ELSE CollectConversations(s, more)

Without(f, D) == [x \in (DOMAIN f) \ D |-> f[x]]

\* QuerySet.delete() on conversations cs; ret is the first item of the tuple
\* it returns, the number of rows deleted in all tables.
QuerySetDelete(s, cs0) ==
    LET cs == CollectConversations(s, cs0)
        vs == {v \in DOMAIN s.V : s.V[v].conversation \in cs}
        ms == {m \in DOMAIN s.M : s.M[m].version \in vs}
        V1 == Without(s.V, vs)
        F1 == [f \in DOMAIN s.F |->
                  IF s.F[f].conversation \in cs
                  THEN [s.F[f] EXCEPT !.conversation = None] ELSE s.F[f]]
    IN [s EXCEPT
          !.C = Without(s.C, cs),
          !.V = [v \in DOMAIN V1 |->
                    [V1[v] EXCEPT
                        !.parent_version = IF @ \in vs THEN None ELSE @,
                        !.root_message = IF @ \in ms THEN None ELSE @]],
          !.M = Without(s.M, ms),
          !.F = F1,
          !.ret = Cardinality(cs) + Cardinality(vs) + Cardinality(ms)]

\* cleanup_old_conversations(days).
cleanup_old_conversations(s, days, now) ==
    LET cutoff_date == now - days IN
    QuerySetDelete(s, {c \in DOMAIN s.C : s.C[c].created_at < cutoff_date})

\* generate_conversation_summary_task(conversation_id).
generate_conversation_summary_task(s, conversation_id, now, reply) ==
    IF conversation_id \in DOMAIN s.C
    THEN update_conversation_summary(s, conversation_id, now, reply)
    ELSE [s EXCEPT !.ret = FALSE]

\* Conversation.Meta.ordering = ['-created_at']: d comes before c (rows of
\* one created_at in the order of their keys, latest first).
ListedBefore(s, d, c) ==
    \/ s.C[d].created_at > s.C[c].created_at
    \/ s.C[d].created_at = s.C[c].created_at /\ d > c

\* The loop of generate_missing_summaries over the conversations it selected,
\* in the order of the query.
RECURSIVE SummariseEach(_, _, _, _, _)
SummariseEach(s, conversations, count, now, reply) ==
    IF conversations = {}
    THEN [s EXCEPT !.ret = count]
    ELSE LET c == CHOOSE x \in conversations :
                      \A y \in conversations \ {x} : ListedBefore(s, x, y)
             s1 == update_conversation_summary(s, c, now, reply)
         IN SummariseEach(s1, conversations \ {c},
                          IF s1.ret = TRUE THEN count + 1 ELSE count, now, reply)

\* generate_missing_summaries(): the filter names the lookup `messages`,
\* which Conversation must have for the query to be built.
generate_missing_summaries(s, now, reply) ==
    IF "messages" \notin ConversationAttrs
    THEN Raise(s, "FieldError")
    ELSE LET found == {c \in DOMAIN s.C :
                          s.C[c].summary = NoText /\ ConversationMessages(s, c) /= {}}
             conversations == {c \in found :
                 Cardinality({d \in found : ListedBefore(s, d, c)}) < MissingSummariesLimit}
         IN SummariseEach(s, conversations, 0, now, reply)

\* ------------------------------------------------------------------ uploads
\* hashlib.sha256 over all chunks of the file, as hexdigest().
Sha256(content) ==
    CASE content = <<1>> -> "4bf5122f344554c53bde2ebb8cd2b7e3d1600ad631c385a5d7cce23c7785459a"
      [] content = <<2>> -> "dbc1b4c900ffe48d575b5da5c638040125f65db0fe3e24494b76ea986457d986"
      [] content = <<1, 1>> -> "9dcf97a184f32623d11a73124ceb99a5709b083721e878a16d78f596718ba7b2"
      [] OTHER -> "e3b0c44298fc1c149afbf4c8996fb92427ae41e4649b934ca495991b7852b855"

\* UploadedFile.calculate_file_hash(file_obj).
calculate_file_hash(file_obj) == Sha256(file_obj.content)

\* file_obj.name.rsplit('.', 1)[1] if "." in file_obj.name else "".
FileType(name) ==
    CASE name = "a.pdf" -> "pdf"
      [] name = "c.tar.gz" -> "gz"
      [] OTHER -> ""

\* UploadedFileSerializer.validate_file(value).
validate_file_accepts_all(s, value) == s
validate_file(s, value) ==
    IF \E f \in DOMAIN s.F : s.F[f].file_hash = calculate_file_hash(value)
    THEN Raise(s, "ValidationError")
    ELSE s

\* UploadedFile.save() of a new row; file_hash is UNIQUE in the table.
UploadedFileSave(s, row) ==
    LET f == s.ids.file
        file_hash == IF row.file.name /= "" /\ row.file_hash = ""
                     THEN calculate_file_hash(row.file) ELSE row.file_hash
    IN IF \E g \in DOMAIN s.F : s.F[g].file_hash = file_hash
       THEN Raise(s, "IntegrityError")
       ELSE [s EXCEPT !.F = (f :> [row EXCEPT !.file_hash = file_hash]) @@ s.F,
                      !.ids.file = f + 1]

\* UploadedFileSerializer.create(validated_data).
UploadedFileSerializer_create(s, validated_data) ==
    LET file_obj == validated_data.file IN
    UploadedFileSave(s,
        [file |-> file_obj,
         conversation |-> validated_data.conversation,
         filename |-> file_obj.name,
         file_size |-> Len(file_obj.content),
         file_type |-> FileType(file_obj.name),
         file_hash |-> "",
         status |-> "pending",
         is_indexed |-> FALSE])

\* ------------------------------------------------------------------ payloads
\* The request payloads the model draws from.  A new message carries content
\* and role (both required by MessageSerializer); an entry with an id names a
\* message to edit.
NewMessageEntries ==
    {[id |-> Absent, content |-> Some("a"), role |-> Some("user")]}

\* The ids a request may name: those of the rows, and one that no row has.
NamedVersions == DOMAIN Version \cup {next_id.version}
NamedMessages == DOMAIN Message \cup {next_id.message}

EditMessageEntries ==
    {[id |-> Some(m), content |-> Some("b"), role |-> Absent] : m \in NamedMessages}

SeqsUpTo(S, n) == UNION {[1..k -> S] : k \in 0..n}

NewMessagePayloads == SeqsUpTo(NewMessageEntries, MaxPayload)
MessagePayloads == SeqsUpTo(NewMessageEntries \cup EditMessageEntries, MaxPayload)

OptionalVersion == {Absent, Some(None)} \cup {Some(v) : v \in DOMAIN Version}
OptionalMessage == {Absent, Some(None)} \cup {Some(m) : m \in DOMAIN Message}

\* The versions a new conversation is posted with: none, or one new version.
CreateVersionsPayloads ==
    {<<>>} \cup
    {<<[id |-> Absent, parent_version |-> Absent, root_message |-> Absent, messages |-> ms]>> :
        ms \in {Absent} \cup {Some(x) : x \in NewMessagePayloads}}

\* Conversation updates that carry no versions.
PlainUpdatePayloads ==
    [title : {Absent},
     active_version : {Absent, Some(None)} \cup {Some(v) : v \in NamedVersions},
     versions : {Some(<<>>)}]

\* Version entries of an upsert that set the version's references.
ReferenceEntries ==
    [id : {Absent} \cup {Some(v) : v \in NamedVersions},
     parent_version : OptionalVersion,
     root_message : OptionalMessage,
     messages : {Some(<<>>)}]

\* Version entries of an upsert that carry messages.
MessagesEntries ==
    [id : {Absent} \cup {Some(v) : v \in NamedVersions},
     parent_version : {Absent},
     root_message : {Absent},
     messages : {Absent} \cup {Some(x) : x \in MessagePayloads}]

\* A conversation update with one version entry.
UpsertPayloads(entries) ==
    [title : {Absent}, active_version : {Absent},
     versions : {Some(<<e>>) : e \in entries}]

\* The payloads of a partial update of one version (no conversation keyword).
VersionUpdatePayloads ==
    [conversation : {Absent},
     parent_version : OptionalVersion,
     root_message : OptionalMessage,
     messages : {Absent, Some(<<>>)}]

\* The number of rows a version entry may insert.
NewIn(version_data) ==
    LET messages_data == Get(version_data, "messages", <<>>) IN
    Cardinality({i \in DOMAIN messages_data : messages_data[i].id = Absent})

NewVersionsIn(versions_data) ==
    Cardinality({i \in DOMAIN versions_data : versions_data[i].id = Absent})

\* The payload fits the key space that is left.
Fits(versions_data) ==
    /\ next_id.version + NewVersionsIn(versions_data) - 1 <= MaxVersions
    /\ \A i \in DOMAIN versions_data :
           next_id.message + NewIn(versions_data[i]) - 1 <= MaxMessages

\* --------------------------------------------------------------------- Init
\* No append in flight: no version, no instance loaded.
NotAppending ==
    [pc |-> "idle", version |-> None,
     conversation |-> [title |-> "", created_at |-> None, modified_at |-> None,
                       active_version |-> None, summary |-> NoText,
                       summary_generated_at |-> None, is_summary_stale |-> FALSE]]

\* The value a handler returned, filed under its Python type: a bool from
\* generate_conversation_summary_task, an Optional[str] from
\* get_cached_summary, a count or None from the others.
Returned(op, ret) ==
    [bool |-> IF op = "generate_conversation_summary_task" THEN {ret} ELSE {},
     str |-> IF op = "get_cached_summary" THEN {ret} ELSE {},
     int |-> IF op \notin {"generate_conversation_summary_task", "get_cached_summary"}
             THEN {ret} ELSE {}]

EmptyTable == [x \in {} |-> None]

Init ==
    /\ Conversation = EmptyTable
    /\ Version = EmptyTable
    /\ Message = EmptyTable
    /\ UploadedFile = EmptyTable
    /\ cache = [c \in ConversationIds |-> NoText]
    /\ next_id = [conversation |-> 1, version |-> 1, message |-> 1, file |-> 1]
    /\ clock = 0
    /\ summarizer = " sum "
    /\ upload = [p \in Clients |-> [pc |-> "idle", file |-> NoFile, conversation |-> None]]
    /\ appending = [p \in Clients |-> NotAppending]
    /\ last = [op |-> "init", reply |-> NoText, err |-> NoError, ret |-> Returned("init", None)]

\* The tables, cache and counters after a handler ran; what it wrote before
\* an exception stays written (autocommit).
Commit(s, op) ==
    /\ Conversation' = s.C
    /\ Version' = s.V
    /\ Message' = s.M
    /\ UploadedFile' = s.F
    /\ cache' = s.K
    /\ next_id' = s.ids
    /\ last' = [op |-> op, reply |-> summarizer, err |-> s.err, ret |-> Returned(op, s.ret)]

\* ------------------------------------------------------------------ actions
\* A day passes; the cache entries, kept for SUMMARY_CACHE_TIMEOUT (one
\* hour), have expired by then.
Tick ==
    /\ clock < MaxTime
    /\ clock' = clock + 1
    /\ cache' = [c \in ConversationIds |-> NoText]
    /\ UNCHANGED <<Conversation, Version, Message, UploadedFile, next_id, summarizer, upload, appending, last>>

\* The summarizer service starts to answer differently.
SummarizerChanges ==
    /\ \E reply \in SummarizerReplies \ {summarizer} : summarizer' = reply
    /\ UNCHANGED <<Conversation, Version, Message, UploadedFile, cache, next_id, clock, upload, appending, last>>

\* POST of a conversation: ConversationSerializer.create.
Create(active_versions) ==
    /\ next_id.conversation <= MaxConversations
    /\ \E active_version \in active_versions,
          versions \in CreateVersionsPayloads :
          /\ Fits(versions)
          /\ Commit(ConversationSerializer_create(Store,
                        [title |-> Some("t1"), active_version |-> active_version,
                         versions |-> Some(versions)], clock, summarizer),
                    "ConversationSerializer.create")
    /\ UNCHANGED <<clock, summarizer, upload, appending>>

ConversationCreate == Create({Absent} \cup {Some(v) : v \in DOMAIN Version})

ConversationNew == Create({Absent})

\* PUT of a conversation's title and active version: ConversationSerializer.update.
ConversationUpdate ==
    /\ \E c \in DOMAIN Conversation, data \in PlainUpdatePayloads :
          Commit(ConversationSerializer_update(Store, c, data, clock, summarizer),
                 "ConversationSerializer.update")
    /\ UNCHANGED <<clock, summarizer, upload, appending>>

\* PUT of a conversation with one version entry: ConversationSerializer.update.
Upsert(entries) ==
    /\ \E c \in DOMAIN Conversation, data \in UpsertPayloads(entries) :
          /\ Fits(Get(data, "versions", <<>>))
          /\ Commit(ConversationSerializer_update(Store, c, data, clock, summarizer),
                    "ConversationSerializer.update")
    /\ UNCHANGED <<clock, summarizer, upload, appending>>

UpsertMessages == Upsert(MessagesEntries)

UpsertReferences == Upsert(ReferenceEntries)

\* PATCH of one version: VersionSerializer.update.
VersionUpdate ==
    /\ \E v \in DOMAIN Version, data \in VersionUpdatePayloads :
          /\ next_id.message + NewIn(data) - 1 <= MaxMessages
          /\ Commit(VersionSerializer_update(Store, v, data, clock, summarizer),
                    "VersionSerializer.update")
    /\ UNCHANGED <<clock, summarizer, upload, appending>>

\* A message is appended to a version: MessageSerializer.create.
MessageAppend ==
    /\ next_id.message <= MaxMessages
    /\ \E v \in DOMAIN Version, e \in NewMessageEntries :
          Commit(MessageSerializer_create(Store, v, Get(e, "content", ""),
                                          Get(e, "role", None), clock, summarizer),
                 "MessageSerializer.create")
    /\ UNCHANGED <<clock, summarizer, upload, appending>>

\* The task generate_conversation_summary_task(conversation_id).
SummaryTask ==
    /\ \E c \in ConversationIds :
          Commit(generate_conversation_summary_task(Store, c, clock, summarizer),
                 "generate_conversation_summary_task")
    /\ UNCHANGED <<clock, summarizer, upload, appending>>

\* The periodic task cleanup_old_conversations(days).
Cleanup ==
    /\ \E days \in 0..MaxTime :
          Commit(cleanup_old_conversations(Store, days, clock),
                 "cleanup_old_conversations")
    /\ UNCHANGED <<clock, summarizer, upload, appending>>

\* The periodic task generate_missing_summaries().
MissingSummariesTask ==
    /\ Commit(generate_missing_summaries(Store, clock, summarizer),
              "generate_missing_summaries")
    /\ UNCHANGED <<clock, summarizer, upload, appending>>

Next ==
    \/ Tick
    \/ SummarizerChanges
    \/ ConversationCreate
    \/ ConversationUpdate
    \/ MessageAppend
    \/ SummaryTask
    \/ MissingSummariesTask
    \/ Cleanup

Spec == Init /\ [][Next]_vars

\* Appends and upserts of messages, as time passes.
NextUpsert ==
    \/ Tick
    \/ ConversationNew
    \/ UpsertMessages
    \/ MessageAppend

SpecUpsert == Init /\ [][NextUpsert]_vars

\* Updates of the references of versions.
NextVersion ==
    \/ ConversationNew
    \/ UpsertReferences
    \/ VersionUpdate
    \/ MessageAppend

SpecVersion == Init /\ [][NextVersion]_vars

\* A client posts a file: is_valid() runs validate_file on it.
UploadValidate ==
    /\ \E p \in Clients, name \in FileNames, content \in FileContents,
          conversation \in {None} \cup DOMAIN Conversation :
          LET file_obj == [name |-> name, content |-> content]
              s == validate_file(Store, file_obj)
          IN /\ upload[p].pc /= "validated"
             /\ upload' = [upload EXCEPT ![p] =
                    IF s.err = NoError
                    THEN [pc |-> "validated", file |-> file_obj, conversation |-> conversation]
                    ELSE [pc |-> "rejected", file |-> file_obj, conversation |-> conversation]]
             /\ Commit(s, "UploadedFileSerializer.validate_file")
    /\ UNCHANGED <<clock, summarizer, appending>>

\* The validated request is saved: UploadedFileSerializer.create.
UploadCreate ==
    /\ next_id.file <= MaxFiles
    /\ \E p \in Clients :
          /\ upload[p].pc = "validated"
          /\ LET s == UploadedFileSerializer_create(Store,
                          [file |-> upload[p].file, conversation |-> upload[p].conversation])
             IN /\ upload' = [upload EXCEPT ![p].pc =
                                 IF s.err = NoError THEN "created" ELSE "failed"]
                /\ Commit(s, "UploadedFileSerializer.create")
    /\ UNCHANGED <<clock, summarizer, appending>>

NextUpload ==
    \/ UploadValidate
    \/ UploadCreate

SpecUpload == Init /\ [][NextUpload]_vars

\* C7: a file whose bytes equal those of a persisted upload is rejected by
\* validation with a duplicate error and nothing is written; the first upload
\* stays persisted, and a lookup by its SHA-256 finds exactly that one row.
C7_DuplicateRejectedInValidation ==
    /\ \A name \in FileNames, content \in FileContents :
           (\E f \in DOMAIN UploadedFile :
                UploadedFile[f].file.content = content) =>
               LET r == validate_file(Store, [name |-> name, content |-> content])
               IN /\ r.err = "ValidationError"
                  /\ r.F = UploadedFile
                  /\ Cardinality({f \in DOMAIN r.F :
                         r.F[f].file_hash = Sha256(content)}) = 1
    /\ \A p \in Clients :
           upload[p].pc = "rejected" =>
               Cardinality({f \in DOMAIN UploadedFile :
                   /\ UploadedFile[f].file.content = upload[p].file.content
                   /\ UploadedFile[f].file_hash = Sha256(upload[p].file.content)}) = 1

C7_Witness ==
    /\ last.op = "UploadedFileSerializer.validate_file"
    /\ last.err = "ValidationError"
    /\ \E p \in Clients, f \in DOMAIN UploadedFile :
           /\ upload[p].pc = "rejected"
           /\ upload[p].file.content = UploadedFile[f].file.content
           /\ upload[p].file.name /= UploadedFile[f].file.name

\* The summary columns and the cache as the service may find them: the
\* conversations exist, each with or without a summary (possibly the empty
\* text), stale or not, cached or not.
InitSummary ==
    /\ Conversation \in
           [ConversationIds ->
               {[title |-> "t1", created_at |-> 0, modified_at |-> 0,
                 active_version |-> None, summary |-> summary,
                 summary_generated_at |-> IF summary = NoText THEN None ELSE 0,
                 is_summary_stale |-> stale] :
                    summary \in {NoText, "", "sum"}, stale \in BOOLEAN}]
    /\ Version = EmptyTable
    /\ Message = EmptyTable
    /\ UploadedFile = EmptyTable
    /\ cache \in [ConversationIds -> {NoText, "sum", "old"}]
    /\ next_id = [conversation |-> MaxConversations + 1, version |-> 1,
                  message |-> 1, file |-> 1]
    /\ clock = 0
    /\ summarizer = " sum "
    /\ upload = [p \in Clients |-> [pc |-> "idle", file |-> NoFile, conversation |-> None]]
    /\ appending = [p \in Clients |-> NotAppending]
    /\ last = [op |-> "init", reply |-> NoText, err |-> NoError, ret |-> Returned("init", None)]

\* ConversationSummaryService.get_cached_summary is called.
GetCachedSummary ==
    /\ \E c \in DOMAIN Conversation :
          Commit(get_cached_summary(Store, c), "get_cached_summary")
    /\ UNCHANGED <<clock, summarizer, upload, appending>>

\* ConversationSummaryService.mark_summary_stale is called.
MarkSummaryStale ==
    /\ \E c \in DOMAIN Conversation :
          Commit(mark_summary_stale(Store, c), "mark_summary_stale")
    /\ UNCHANGED <<clock, summarizer, upload, appending>>

NextSummary ==
    \/ Tick
    \/ GetCachedSummary
    \/ MarkSummaryStale
    \/ SummaryTask

SpecSummary == InitSummary /\ [][NextSummary]_vars

\* A database that holds conversations summarised earlier: every conversation
\* has one version, with or without a persisted summary, stale or not; the
\* cache is cold.
InitStored ==
    /\ Conversation \in
           [ConversationIds ->
               {[title |-> "t1", created_at |-> 0, modified_at |-> 0,
                 active_version |-> None, summary |-> summary,
                 summary_generated_at |-> IF summary = NoText THEN None ELSE 0,
                 is_summary_stale |-> stale] :
                    summary \in {NoText, "sum"}, stale \in BOOLEAN}]
    /\ Version = [v \in ConversationIds |->
                     [conversation |-> v, parent_version |-> None, root_message |-> None]]
    /\ Message = EmptyTable
    /\ UploadedFile = EmptyTable
    /\ cache = [c \in ConversationIds |-> NoText]
    /\ next_id = [conversation |-> MaxConversations + 1,
                  version |-> MaxConversations + 1, message |-> 1, file |-> 1]
    /\ clock = 0
    /\ summarizer = " sum "
    /\ upload = [p \in Clients |-> [pc |-> "idle", file |-> NoFile, conversation |-> None]]
    /\ appending = [p \in Clients |-> NotAppending]
    /\ last = [op |-> "init", reply |-> NoText, err |-> NoError, ret |-> Returned("init", None)]

NextStored ==
    \/ Tick
    \/ MessageAppend
    \/ GetCachedSummary
    \/ MarkSummaryStale
    \/ SummaryTask
    \/ Cleanup

SpecStored == InitStored /\ [][NextStored]_vars

\* Conversations are posted and messages appended, day after day, while the
\* scheduler keeps running generate_missing_summaries; the summarizer
\* answers every call.
NextBackfill ==
    \/ Tick
    \/ ConversationNew
    \/ MessageAppend
    \/ MissingSummariesTask

SpecBackfill == Init /\ [][NextBackfill]_vars /\ WF_vars(MissingSummariesTask)

\* An append request reaches Message.save and reads self.version.conversation:
\* the conversation row is loaded into the request.
AppendLoad ==
    /\ \E p \in Clients, v \in DOMAIN Version :
          /\ appending[p].pc = "idle"
          /\ appending' = [appending EXCEPT ![p] =
                 [pc |-> "loaded", version |-> v,
                  conversation |-> Conversation[Version[v].conversation]]]
    /\ UNCHANGED <<Conversation, Version, Message, UploadedFile, cache, next_id, clock, summarizer, upload, last>>

\* The request goes on: the loaded instance is saved, the message inserted,
\* post_save sent.
AppendSave ==
    /\ next_id.message <= MaxMessages
    /\ \E p \in Clients, e \in NewMessageEntries :
          /\ appending[p].pc = "loaded"
          /\ Commit(MessageObjectsCreateFrom(Store, appending[p].version,
                        Get(e, "content", ""), Get(e, "role", None), clock, summarizer,
                        appending[p].conversation),
                    "Message.save")
          /\ appending' = [appending EXCEPT ![p] = NotAppending]
    /\ UNCHANGED <<clock, summarizer, upload>>

\* Appends in steps, next to requests that change the same conversation.
NextRace ==
    \/ ConversationNew
    \/ AppendLoad
    \/ AppendSave
    \/ ConversationUpdate
    \/ MarkSummaryStale
    \/ SummaryTask

SpecRace == Init /\ [][NextRace]_vars

\* ================================================================== claims
VersionMessages(s, v) == {m \in DOMAIN s.M : s.M[m].version = v}

\* C1: in every reachable state, a conversation whose active_version is set
\* points to a version whose conversation is that same conversation.
C1_ActiveVersionBelongs ==
    \A c \in DOMAIN Conversation :
        Conversation[c].active_version /= None =>
            /\ Conversation[c].active_version \in DOMAIN Version
            /\ Version[Conversation[c].active_version].conversation = c

\* C2: ConversationSerializer.update with the active_version of another
\* conversation fails with InvalidReference and leaves the persisted
\* active_version as it was.
C2_ForeignActiveVersionRejected ==
    \A c \in DOMAIN Conversation, v \in DOMAIN Version :
        Version[v].conversation /= c =>
            LET r == ConversationSerializer_update(Store, c,
                         [title |-> Absent, active_version |-> Some(v),
                          versions |-> Some(<<>>)], clock, summarizer)
            IN /\ r.err = "InvalidReference"
               /\ r.C[c].active_version = Conversation[c].active_version

\* Messages were inserted in the order of their keys; within a version that
\* order is the order of created_at.
Chronological(s, v) ==
    \A m1, m2 \in VersionMessages(s, v) :
        m1 < m2 => s.M[m1].created_at <= s.M[m2].created_at

\* C3: an append to a version of N messages leaves it with N+1 messages, the
\* N old rows unchanged plus the new one, and the messages of every version
\* are in non-decreasing created_at order, after any sequence of operations.
C3_AppendAddsOneInOrder ==
    /\ \A v \in DOMAIN Version : Chronological(Store, v)
    /\ \A v \in DOMAIN Version, e \in NewMessageEntries :
           next_id.message <= MaxMessages =>
               LET r == MessageSerializer_create(Store, v, Get(e, "content", ""),
                            Get(e, "role", None), clock, summarizer)
                   old == VersionMessages(Store, v)
                   new == VersionMessages(r, v)
               IN /\ Cardinality(new) = Cardinality(old) + 1
                  /\ new = old \cup {next_id.message}
                  /\ \A m \in old : r.M[m] = Message[m]
                  /\ r.M[next_id.message].content = Get(e, "content", "")
                  /\ \A m \in old : r.M[m].created_at <= r.M[next_id.message].created_at

C3_Witness ==
    /\ last.op = "MessageSerializer.create"
    /\ \E v \in DOMAIN Version :
           /\ Cardinality(VersionMessages(Store, v)) = MaxMessages
           /\ \E m1, m2 \in VersionMessages(Store, v) :
                  Message[m1].created_at < Message[m2].created_at

\* C4: a message append succeeds: no exception of the post_save summary hook
\* reaches its caller, and the message is persisted.
C4_AppendNeverFails ==
    last.op = "MessageSerializer.create" =>
        /\ last.err = NoError
        /\ (next_id.message - 1) \in DOMAIN Message

\* C5: update_conversation_summary with a failing summarizer returns False
\* and leaves the conversation rows (summary, summary_generated_at,
\* is_summary_stale) and the cache as they were.
C5_FailedUpdateChangesNothing ==
    \A c \in DOMAIN Conversation :
        LET r == update_conversation_summary(Store, c, clock, OpenAIError)
        IN /\ r.ret = FALSE
           /\ r.C = Conversation
           /\ r.K = cache

C5_Witness ==
    /\ last.op = "generate_conversation_summary_task"
    /\ last.reply = OpenAIError
    /\ last.ret.bool = {FALSE}
    /\ \E c \in DOMAIN Conversation :
           /\ Cardinality(ConversationMessages(Store, c)) >= MIN_MESSAGES_FOR_SUMMARY
           /\ Conversation[c].is_summary_stale

\* C6: generate_summary returns no summary for a conversation of fewer than 3
\* messages, and the summarizer's non-empty text for one of 3 or more
\* messages when the summarizer succeeds.
C6_SummaryByMessageCount ==
    \A c \in DOMAIN Conversation, reply \in SummarizerReplies :
        LET n == Cardinality(ConversationMessages(Store, c))
            summary == generate_summary(Store, c, reply)
        IN /\ n < MIN_MESSAGES_FOR_SUMMARY => summary = NoText
           /\ (n >= MIN_MESSAGES_FOR_SUMMARY /\ reply /= OpenAIError /\ Strip(reply) /= "")
                  => summary = Strip(reply)

\* C8: cleanup_old_conversations(days) deletes every conversation created
\* before the cutoff with its versions and messages, and returns the number
\* of conversations it deleted.
C8_CleanupCountsConversations ==
    \A days \in 0..MaxTime :
        LET r == cleanup_old_conversations(Store, days, clock)
            old == {c \in DOMAIN Conversation : Conversation[c].created_at < clock - days}
        IN /\ \A c \in old : c \notin DOMAIN r.C
           /\ \A v \in DOMAIN r.V : r.V[v].conversation \notin old
           /\ \A m \in DOMAIN r.M : r.M[m].version \in DOMAIN r.V
           /\ r.ret = Cardinality(DOMAIN Conversation \ DOMAIN r.C)

\* The entry names an existing version of conversation c, passes is_valid,
\* and every message id it carries is a message of that version.
WellFormedUpsert(c, e) ==
    /\ e.id /= Absent
    /\ Get(e, "id", None) \in DOMAIN Version
    /\ Version[Get(e, "id", None)].conversation = c
    /\ is_valid(e)
    /\ \A i \in DOMAIN Get(e, "messages", <<>>) :
           LET md == Get(e, "messages", <<>>)[i] IN
           md.id /= Absent =>
               /\ Get(md, "id", None) \in DOMAIN Message
               /\ Message[Get(md, "id", None)].version = Get(e, "id", None)

\* C9: a conversation update with an entry that carries the id of one of its
\* versions updates that version in place: the versions stay the same rows,
\* each message entry with an id updates that message and adds none, and
\* each message entry without an id is appended.
C9_UpsertReconcilesMessages ==
    \A c \in DOMAIN Conversation, e \in MessagesEntries :
        (WellFormedUpsert(c, e) /\ Fits(<<e>>)) =>
            LET v == Get(e, "id", None)
                md == Get(e, "messages", <<>>)
                r == ConversationSerializer_update(Store, c,
                         [title |-> Absent, active_version |-> Absent,
                          versions |-> Some(<<e>>)], clock, summarizer)
            IN /\ DOMAIN r.V = DOMAIN Version
               /\ \A i \in DOMAIN md :
                      md[i].id /= Absent =>
                          r.M[Get(md[i], "id", None)].content = Get(md[i], "content", "")
               /\ Cardinality(VersionMessages(r, v))
                      = Cardinality(VersionMessages(Store, v)) + NewIn(e)

C11_ReferencesStayInConversation ==
    /\ \A v \in DOMAIN Version :
           /\ Version[v].parent_version /= None =>
                  /\ Version[v].parent_version \in DOMAIN Version
                  /\ Version[Version[v].parent_version].conversation
                         = Version[v].conversation
           /\ Version[v].root_message /= None =>
                  /\ Version[v].root_message \in DOMAIN Message
                  /\ Version[Message[Version[v].root_message].version].conversation
                         = Version[v].conversation
    /\ \A c \in DOMAIN Conversation, e \in ReferenceEntries :
           (/\ WellFormedUpsert(c, e)
            /\ \/ /\ Get(e, "parent_version", None) \in DOMAIN Version
                  /\ Version[Get(e, "parent_version", None)].conversation /= c
               \/ /\ Get(e, "root_message", None) \in DOMAIN Message
                  /\ Version[Message[Get(e, "root_message", None)].version].conversation /= c) =>
               LET r == ConversationSerializer_update(Store, c,
                            [title |-> Absent, active_version |-> Absent,
                             versions |-> Some(<<e>>)], clock, summarizer)
               IN r.err = "InvalidReference" /\ r.V = Version

\* Following parent_version from v for at most MaxVersions steps reaches w.
RECURSIVE ReachesByParent(_, _, _)
ReachesByParent(v, w, n) ==
    /\ n > 0
    /\ v \in DOMAIN Version
    /\ Version[v].parent_version /= None
    /\ \/ Version[v].parent_version = w
       \/ ReachesByParent(Version[v].parent_version, w, n - 1)

\* C12: parent_version is acyclic: after any sequence of version creations
\* and updates no version is its own parent and following parent_version
\* from a version never comes back to it.
C12_ParentVersionAcyclic ==
    \A v \in DOMAIN Version : ~ReachesByParent(v, v, MaxVersions)

\* C13: a message append that leaves the conversation with at least
\* MIN_MESSAGES_FOR_SUMMARY messages enters update_conversation_summary once
\* before it returns; an append that leaves fewer, and a message edit, do
\* not enter it.
C13_AppendInvokesSummaryUpdate ==
    /\ \A v \in DOMAIN Version, e \in NewMessageEntries :
           next_id.message <= MaxMessages =>
               LET r == MessageSerializer_create(Store, v, Get(e, "content", ""),
                            Get(e, "role", None), clock, summarizer)
                   n == Cardinality(ConversationMessages(r, Version[v].conversation))
               IN r.calls = IF n >= MIN_MESSAGES_FOR_SUMMARY THEN 1 ELSE 0
    /\ \A m \in DOMAIN Message :
           MessageSave(Store, m, [Message[m] EXCEPT !.content = "b"], FALSE,
                       clock, summarizer).calls = 0

\* C14: right after a conversation is created, by any creation payload, its
\* persisted is_summary_stale is true, its active_version is unset and its
\* summary is absent.
C14_NewConversationStaleAndBare ==
    \A active_version \in {Absent} \cup {Some(v) : v \in DOMAIN Version},
       versions \in CreateVersionsPayloads :
        (next_id.conversation <= MaxConversations /\ Fits(versions)) =>
            LET r == ConversationSerializer_create(Store,
                         [title |-> Some("t1"), active_version |-> active_version,
                          versions |-> Some(versions)], clock, summarizer)
                c == next_id.conversation
            IN /\ c \in DOMAIN r.C
               /\ r.C[c].is_summary_stale = TRUE
               /\ r.C[c].active_version = None
               /\ r.C[c].summary = NoText

C16_MarkStaleOnlyFlagAndCache ==
    \A c \in DOMAIN Conversation :
        LET r == mark_summary_stale(Store, c)
        IN /\ r.C[c].is_summary_stale = TRUE
           /\ r.K[c] = NoText
           /\ r.C = [Conversation EXCEPT ![c].is_summary_stale = TRUE]
           /\ r.K = [cache EXCEPT ![c] = NoText]
           /\ r.V = Version /\ r.M = Message /\ r.F = UploadedFile
           /\ r.err = NoError

C16_Witness ==
    /\ last.op = "mark_summary_stale"
    /\ \E c \in DOMAIN Conversation :
           /\ Conversation[c].is_summary_stale
           /\ Conversation[c].summary = "sum"
           /\ Conversation[c].summary_generated_at /= None
           /\ cache[c] = NoText
           /\ \E d \in DOMAIN Conversation : cache[d] /= NoText

\* C17: get_cached_summary returns the cached text when there is a cache
\* entry; without one it returns the persisted summary, when there is one
\* (a text that is not empty), and writes it to the cache; with neither it
\* returns None and leaves the cache empty.  It never changes the persisted
\* conversation.
C17_CachedSummaryLookup ==
    \A c \in DOMAIN Conversation :
        LET r == get_cached_summary(Store, c)
            summary == Conversation[c].summary
        IN /\ r.C = Conversation
           /\ cache[c] /= NoText => (r.ret = cache[c] /\ r.K = cache)
           /\ (cache[c] = NoText /\ summary \notin {NoText, ""}) =>
                  (r.ret = summary /\ r.K = [cache EXCEPT ![c] = summary])
           /\ (cache[c] = NoText /\ summary \in {NoText, ""}) =>
                  (r.ret = NoText /\ r.K = cache)

\* A lookup returned a text, one conversation's cache entry is its persisted
\* summary and another's is a text that is not persisted.
C17_Witness ==
    /\ last.op = "get_cached_summary"
    /\ last.ret.str = {"sum"}
    /\ \E c, d \in DOMAIN Conversation :
           /\ Conversation[c].summary = "sum" /\ cache[c] = "sum"
           /\ Conversation[d].summary = NoText /\ cache[d] = "old"

\* C18: a cleanup run deletes no conversation whose created_at is not before
\* the cutoff and no version or message of such a conversation, whatever
\* active_version, parent_version and root_message refer to; the uploaded
\* files stay, those of a deleted conversation with the reference cleared.
C18_CleanupSparesYoungConversations ==
    \A days \in 0..MaxTime :
        LET r == cleanup_old_conversations(Store, days, clock)
            young == {c \in DOMAIN Conversation :
                         Conversation[c].created_at >= clock - days}
        IN /\ young \subseteq DOMAIN r.C
           /\ \A v \in DOMAIN Version :
                  Version[v].conversation \in young => v \in DOMAIN r.V
           /\ \A m \in DOMAIN Message :
                  Version[Message[m].version].conversation \in young => m \in DOMAIN r.M
           /\ DOMAIN r.F = DOMAIN UploadedFile
           /\ \A f \in DOMAIN UploadedFile :
                  r.F[f].conversation =
                      IF UploadedFile[f].conversation \in DOMAIN r.C
                      THEN UploadedFile[f].conversation ELSE None

\* C19: a run of generate_missing_summaries completes, enters
\* update_conversation_summary for at most MissingSummariesLimit
\* conversations, each without a summary and with a message, returns the
\* number of those for which it succeeded, and leaves the conversations that
\* had a summary as they were.
C19_BackfillOnlySummaryless ==
    LET r == generate_missing_summaries(Store, clock, summarizer)
        found == {c \in DOMAIN Conversation :
                     /\ Conversation[c].summary = NoText
                     /\ ConversationMessages(Store, c) /= {}}
    IN /\ r.err = NoError
       /\ r.calls <= MissingSummariesLimit
       /\ r.calls <= Cardinality(found)
       /\ r.ret = Cardinality({c \in found : r.C[c].summary /= NoText})
       /\ \A c \in DOMAIN Conversation :
              Conversation[c].summary /= NoText => r.C[c] = Conversation[c]

\* The entry names a version that is not one of conversation c, or a message
\* that is not one of the version.
FailingUpsert(c, e) ==
    /\ e.id /= Absent
    /\ is_valid(e)
    /\ ~WellFormedUpsert(c, e)

\* C20: a conversation upsert that fails on a version id that is not a
\* version of the conversation, or on a message id that is not a message of
\* the version, raises the error to the caller and persists nothing of the
\* request: title, active_version, the versions and the messages keep their
\* values.
C20_FailedUpsertPersistsNothing ==
    \A c \in DOMAIN Conversation, title \in {Absent, Some("t2")}, e \in MessagesEntries :
        (FailingUpsert(c, e) /\ Fits(<<e>>)) =>
            LET r == ConversationSerializer_update(Store, c,
                         [title |-> title, active_version |-> Absent,
                          versions |-> Some(<<e>>)], clock, summarizer)
            IN /\ r.err /= NoError
               /\ r.C[c].title = Conversation[c].title
               /\ r.C[c].active_version = Conversation[c].active_version
               /\ r.V = Version
               /\ r.M = Message

C22_BackfillEventuallySummarises ==
    \A c \in ConversationIds :
        (/\ c \in DOMAIN Conversation
         /\ Cardinality(ConversationMessages(Store, c)) >= MIN_MESSAGES_FOR_SUMMARY
         /\ Conversation[c].summary = NoText)
            ~> (c \notin DOMAIN Conversation \/ Conversation[c].summary /= NoText)

\* C23: however two uploads of the same bytes interleave, at most one row
\* with their hash is persisted, and the other upload is rejected by the
\* duplicate check of validation: no upload passes validation and then
\* fails when it is saved.
C23_ConcurrentDuplicateRejectedInValidation ==
    /\ \A f, g \in DOMAIN UploadedFile :
           UploadedFile[f].file_hash = UploadedFile[g].file_hash => f = g
    /\ \A p \in Clients : upload[p].pc /= "failed"

\* C25: the step that completes a message append changes nothing of the
\* owning conversation but modified_at: the summary, summary_generated_at,
\* is_summary_stale and active_version that are persisted when it saves,
\* whoever wrote them, are persisted after it.
C25_AppendKeepsOtherColumns ==
    [][\A p \in Clients :
          (appending[p].pc = "loaded" /\ appending'[p].pc = "idle") =>
              LET c == Version[appending[p].version].conversation
              IN /\ c \in DOMAIN Conversation'
                 /\ Conversation'[c].summary = Conversation[c].summary
                 /\ Conversation'[c].summary_generated_at = Conversation[c].summary_generated_at
                 /\ Conversation'[c].is_summary_stale = Conversation[c].is_summary_stale
                 /\ Conversation'[c].active_version = Conversation[c].active_version]_vars

====
